---- MODULE Spec2Model ----
(***************************************************************************)
(* Model of download-release-notes.js: the GitHub release notes            *)
(* downloader.  Strings are TLA+ strings and the JavaScript string         *)
(* built-ins the script uses (startsWith, includes, trim, split, join,     *)
(* replace, parseInt) are operators that compute what the built-ins        *)
(* compute.  The pure functions (parseVersion, versionMatches,             *)
(* filterReleasesByVersion, cleanReleaseBody) are operators; main,         *)
(* fetchAllReleases and saveReleasesAsMarkdown are the actions of Spec.    *)
(***************************************************************************)
EXTENDS Integers, Sequences, FiniteSets, TLC

VARIABLES
    pc,          \* position of main / fetchAllReleases / saveReleasesAsMarkdown
    minVersion,  \* parseArgs result.minVersion (null when the option is absent)
    maxVersion,  \* parseArgs result.maxVersion (null when the option is absent)
    page,        \* fetchAllReleases: let page
    heap,        \* the arrays of the run: array reference -> its elements
    requests,    \* page numbers makeRequest was called with, in call order
    inFlight,    \* number of requests awaiting their response
    error,       \* the Error that reached main's catch, or null
    file,        \* <<content of <repo>-changelog.md>>, <<>> while it does not exist
    exitCode,    \* process exit status ("0" or "1"), or null while the process runs
    responses,   \* the arrays the successful responses held, in arrival order
    releases,    \* main: const releases (an array reference; 0 while unassigned)
    filteredReleases, \* saveReleasesAsMarkdown: const filteredReleases (0 while unassigned)
    snapshot,    \* elements of main's releases array when saveReleasesAsMarkdown was called
    arg,         \* arguments of the function called on its own
    ret          \* <<its return value>>, or <<>> before the call

vars == <<pc, minVersion, maxVersion, page, heap, requests, inFlight, error,
          file, exitCode, responses, releases, filteredReleases, snapshot,
          arg, ret>>

runVars == <<pc, minVersion, maxVersion, page, heap, requests, inFlight, error,
             file, exitCode, responses, releases, filteredReleases, snapshot>>

\* null and undefined (an absent option, an absent field)
null == "null"

\* A JavaScript number n is <<n>> where NaN can occur, and NaN is <<>>.
NaN == <<>>

-----------------------------------------------------------------------------
(* JavaScript string built-ins *)

Digits == {"0", "1", "2", "3", "4", "5", "6", "7", "8", "9"}

charAt(s, i) == SubSeq(s, i, i)

\* String.prototype.startsWith
startsWith(s, p) == Len(s) >= Len(p) /\ SubSeq(s, 1, Len(p)) = p

\* String.prototype.includes
includes(s, p) ==
    \E i \in 1..(Len(s) - Len(p) + 1) : SubSeq(s, i, i + Len(p) - 1) = p

isWhiteSpace(c) == c \in {" ", "\t", "\n", "\r"}

\* the positions of s that hold no white space
nonWhiteSpace(s) == {i \in 1..Len(s) : ~isWhiteSpace(charAt(s, i))}

\* String.prototype.trim
trim(s) ==
    LET keep == nonWhiteSpace(s)
    IN  IF keep = {} THEN ""
        ELSE SubSeq(s, CHOOSE i \in keep : \A j \in keep : i <= j,
                       CHOOSE i \in keep : \A j \in keep : i >= j)

\* String.prototype.split with a one-character separator: piece k lies
\* between the (k-1)-th and the k-th separator; "" splits into <<"">>.
split(s, sep) ==
    LET at == {i \in 1..Len(s) : charAt(s, i) = sep}
        nth(k) == IF k = 0 THEN 0
                  ELSE IF k = Cardinality(at) + 1 THEN Len(s) + 1
                  ELSE CHOOSE i \in at : Cardinality({j \in at : j < i}) = k - 1
    IN  [k \in 1..(Cardinality(at) + 1) |-> SubSeq(s, nth(k - 1) + 1, nth(k) - 1)]

\* Array.prototype.join
RECURSIVE join(_, _)
join(parts, sep) ==
    IF Len(parts) = 0 THEN ""
    ELSE IF Len(parts) = 1 THEN parts[1]
         ELSE parts[1] \o sep \o join(Tail(parts), sep)

\* version.replace(/^v/, "")
stripLeadingV(s) == IF startsWith(s, "v") THEN Tail(s) ELSE s

\* part.replace(/[^\d]/g, "")
RECURSIVE removeNonDigits(_)
removeNonDigits(s) ==
    IF Len(s) = 0 THEN ""
    ELSE IF charAt(s, 1) \in Digits
         THEN charAt(s, 1) \o removeNonDigits(Tail(s))
         ELSE removeNonDigits(Tail(s))

digitValue(c) ==
    CASE c = "0" -> 0 [] c = "1" -> 1 [] c = "2" -> 2 [] c = "3" -> 3
      [] c = "4" -> 4 [] c = "5" -> 5 [] c = "6" -> 6 [] c = "7" -> 7
      [] c = "8" -> 8 [] c = "9" -> 9

\* the value of the longest prefix of s made of digits, given the value acc
\* of the digits already read
RECURSIVE leadingDigits(_, _)
leadingDigits(s, acc) ==
    IF Len(s) > 0 /\ charAt(s, 1) \in Digits
    THEN leadingDigits(Tail(s), 10 * acc + digitValue(charAt(s, 1)))
    ELSE acc

\* parseInt(s, 10): skips leading white space, reads an optional sign and the
\* leading digits; NaN when no digit follows.
parseInt(s) ==
    LET keep == nonWhiteSpace(s)
        t == IF keep = {} THEN ""
             ELSE SubSeq(s, CHOOSE i \in keep : \A j \in keep : i <= j, Len(s))
        neg == startsWith(t, "-")
        u == IF neg \/ startsWith(t, "+") THEN Tail(t) ELSE t
    IN  IF Len(u) = 0 \/ charAt(u, 1) \notin Digits THEN NaN
        ELSE IF neg THEN <<0 - leadingDigits(u, 0)>> ELSE <<leadingDigits(u, 0)>>

isNaN(x) == Len(x) = 0

-----------------------------------------------------------------------------
(* parseVersion, versionMatches *)

\* mutant: the non-digit characters are not removed before parseInt
parseVersionPart_KeepNonDigits(part) ==
    LET num == parseInt(part)
    IN  IF isNaN(num) THEN 0 ELSE num[1]

parseVersionPart(part) ==
    LET num == parseInt(removeNonDigits(part))
    IN  IF isNaN(num) THEN 0 ELSE num[1]

parseVersion(version) ==
    LET cleanVersion == stripLeadingV(version)
        parts == split(cleanVersion, ".")
    IN  [i \in 1..Len(parts) |-> parseVersionPart(parts[i])]

\* versionParts[i] || 0, with i counted from 1
partOrZero(versionParts, i) ==
    IF i <= Len(versionParts) /\ versionParts[i] # 0 THEN versionParts[i] ELSE 0

\* mutant: the loop runs over the version's components, not the pattern's
RECURSIVE versionMatchesFrom_VersionLength(_, _, _, _)
versionMatchesFrom_VersionLength(versionParts, patternParts, type, i) ==
    IF i > Len(versionParts) THEN TRUE
    ELSE LET vPart == partOrZero(versionParts, i)
             pPart == partOrZero(patternParts, i)
         IN  IF vPart < pPart THEN type = "max"
             ELSE IF vPart > pPart THEN type = "min"
             ELSE versionMatchesFrom_VersionLength(versionParts, patternParts,
                                                   type, i + 1)

\* the for loop of versionMatches from index i on
RECURSIVE versionMatchesFrom(_, _, _, _)
versionMatchesFrom(versionParts, patternParts, type, i) ==
    IF i > Len(patternParts) THEN TRUE
    ELSE LET vPart == partOrZero(versionParts, i)
             pPart == patternParts[i]
         IN  IF vPart < pPart THEN type = "max"
             ELSE IF vPart > pPart THEN type = "min"
             ELSE versionMatchesFrom(versionParts, patternParts, type, i + 1)

versionMatches(version, pattern, type) ==
    versionMatchesFrom(parseVersion(version), parseVersion(pattern), type, 1)

-----------------------------------------------------------------------------
(* filterReleasesByVersion *)

\* JavaScript truthiness of a string-or-null value: null and "" are falsy
truthy(s) == s # null /\ s # ""

\* mutant: the minimum bound is not checked
keepRelease_IgnoreMin(release, minV, maxV) ==
    ~(truthy(maxV) /\ ~versionMatches(release.tag_name, maxV, "max"))

\* the callback of releases.filter
keepRelease(release, minV, maxV) ==
    LET version == release.tag_name
    IN  IF truthy(minV) /\ ~versionMatches(version, minV, "min") THEN FALSE
        ELSE IF truthy(maxV) /\ ~versionMatches(version, maxV, "max") THEN FALSE
        ELSE TRUE

\* whether filterReleasesByVersion returns its argument itself, not a new array
returnsSameArray(minV, maxV) == ~truthy(minV) /\ ~truthy(maxV)

\* the elements of the array filterReleasesByVersion returns
filterReleasesByVersion(array, minV, maxV) ==
    IF returnsSameArray(minV, maxV) THEN array
    ELSE SelectSeq(array, LAMBDA release : keepRelease(release, minV, maxV))

-----------------------------------------------------------------------------
(* cleanReleaseBody *)

\* mutant: the line is matched as written, not trimmed
trimmedLineOf_Untrimmed(line) == line

\* const trimmedLine = line.trim()
trimmedLineOf(line) == trim(line)

startsNewContributors(trimmedLine) ==
    \/ startsWith(trimmedLine, "## New Contributors")
    \/ startsWith(trimmedLine, "### New Contributors")
    \/ startsWith(trimmedLine, "**New Contributors**")

isFullChangelog(trimmedLine) ==
    \/ startsWith(trimmedLine, "**Full Changelog**:")
    \/ startsWith(trimmedLine, "Full Changelog:")

\* mutant: any heading ends the skipped section, also one naming New Contributors
isOtherSection_AnyHeading(trimmedLine) ==
    startsWith(trimmedLine, "##") \/ startsWith(trimmedLine, "###")

isOtherSection(trimmedLine) ==
    /\ startsWith(trimmedLine, "##") \/ startsWith(trimmedLine, "###")
    /\ ~includes(trimmedLine, "New Contributors")

\* one iteration of the for loop: st is [skipSection, cleanedLines]
cleanLine(st, line) ==
    LET trimmedLine == trimmedLineOf(line)
    IN  IF startsNewContributors(trimmedLine)
        THEN [st EXCEPT !.skipSection = TRUE]
        ELSE IF isFullChangelog(trimmedLine)
        THEN st
        ELSE LET skip == IF st.skipSection /\ isOtherSection(trimmedLine)
                         THEN FALSE
                         ELSE st.skipSection
             IN  [skipSection |-> skip,
                  cleanedLines |-> IF ~skip
                                   THEN Append(st.cleanedLines, line)
                                   ELSE st.cleanedLines]

\* the for loop over lines, from the state st
RECURSIVE cleanLines(_, _)
cleanLines(st, lines) ==
    IF Len(lines) = 0 THEN st
    ELSE cleanLines(cleanLine(st, Head(lines)), Tail(lines))

\* cleanedLines when the loop ends
cleanedLinesOf(body) ==
    cleanLines([skipSection |-> FALSE, cleanedLines |-> <<>>],
               split(body, "\n")).cleanedLines

cleanReleaseBody(body) ==
    IF ~truthy(body) THEN ""
    ELSE trim(join(cleanedLinesOf(body), "\n"))

-----------------------------------------------------------------------------
(* saveReleasesAsMarkdown: the document *)

\* a release as the API returns it: published_at is the instant the ISO
\* timestamp denotes (what new Date(published_at) evaluates to)
Release(tag, name, body, at) ==
    [tag_name |-> tag, name |-> name, body |-> body, published_at |-> at]

RECURSIVE sortFrom(_, _)
sortFrom(array, instants) ==
    IF instants = {} THEN <<>>
    ELSE LET newest == CHOOSE t \in instants : \A u \in instants : u <= t
         IN  SelectSeq(array, LAMBDA r : r.published_at = newest)
             \o sortFrom(array, instants \ {newest})

\* mutant: oldest first
RECURSIVE sortAscending(_, _)
sortAscending(array, instants) ==
    IF instants = {} THEN <<>>
    ELSE LET oldest == CHOOSE t \in instants : \A u \in instants : t <= u
         IN  SelectSeq(array, LAMBDA r : r.published_at = oldest)
             \o sortAscending(array, instants \ {oldest})

\* mutant of sortByPublishedDesc
sortByPublishedAsc(array) ==
    sortAscending(array, {array[i].published_at : i \in 1..Len(array)})

\* array.sort((a, b) => new Date(b.published_at) - new Date(a.published_at)):
\* newest first, releases of the same instant in their former order (the sort
\* is stable)
sortByPublishedDesc(array) ==
    sortFrom(array, {array[i].published_at : i \in 1..Len(array)})

\* mutant: the count line gives the number of releases shown as the total
header_ShownAsTotal(shown, total, minV, maxV) ==
    [title |-> "# repo Changelog\n\n",
     range |-> IF truthy(minV) \/ truthy(maxV)
               THEN "Version range: " \o (IF truthy(minV) THEN minV ELSE "any")
                    \o " to " \o (IF truthy(maxV) THEN maxV ELSE "latest") \o "\n"
               ELSE "",
     count |-> IF truthy(minV) \/ truthy(maxV)
               THEN "Showing " \o ToString(shown) \o " of " \o ToString(shown)
                    \o " releases\n\n"
               ELSE ""]

\* the header lines: the title, and the range and count lines when a bound is given
header(shown, total, minV, maxV) ==
    [title |-> "# repo Changelog\n\n",
     range |-> IF truthy(minV) \/ truthy(maxV)
               THEN "Version range: " \o (IF truthy(minV) THEN minV ELSE "any")
                    \o " to " \o (IF truthy(maxV) THEN maxV ELSE "latest") \o "\n"
               ELSE "",
     count |-> IF truthy(minV) \/ truthy(maxV)
               THEN "Showing " \o ToString(shown) \o " of " \o ToString(total)
                    \o " releases\n\n"
               ELSE ""]

\* what the loop appends after release i of n: the separator, or nothing
separatorAfter(i, n) == IF i < n THEN "---\n\n" ELSE ""

\* what one iteration of the for loop appends for release i of n
section(release, i, n) ==
    [heading |-> "## " \o (IF truthy(release.name) THEN release.name
                           ELSE release.tag_name) \o "\n\n",
     body |-> IF truthy(release.body)
                 /\ truthy(trim(cleanReleaseBody(release.body)))
              THEN cleanReleaseBody(release.body) \o "\n\n"
              ELSE "",
     separator |-> separatorAfter(i, n)]

\* changelogContent: the header and the sections, in the order appended
changelogContent(sorted, total, minV, maxV) ==
    [header |-> header(Len(sorted), total, minV, maxV),
     sections |-> [i \in 1..Len(sorted) |-> section(sorted[i], i, Len(sorted))]]

-----------------------------------------------------------------------------
(* The run: main, fetchAllReleases, saveReleasesAsMarkdown *)

perPage == 100

\* bound: the server holds at most MaxPages pages
MaxPages == 3

\* bound: most releases of a page that is not full
MaxPageItems == 3

\* a full page: perPage releases
FullPage(p) ==
    [i \in 1..perPage |->
        Release("0.1.0", "r" \o ToString(p) \o "." \o ToString(i), null, 0)]

NotesBody ==
    "### Changes\n- fix\n## New Contributors\n* @a first PR\n**Full Changelog**: u"

RunReleases ==
    {Release("7.5.0", null, null, 1),
     Release("v8.2.0", "Version 8.2.0", NotesBody, 2),
     Release("8.9.9", null, "---", 3),
     Release("9.0.1", "", "## New Contributors\n* @a first PR", 3)}

\* the pages shorter than perPage: distinct releases in any order
ShortPages ==
    {p \in UNION {[1..n -> RunReleases] : n \in 0..MaxPageItems} :
        \A i, j \in 1..Len(p) : p[i] = p[j] => i = j}

RunMinVersions == {null, "8.2", "10"}
RunMaxVersions == {null, "9"}

RequestErrors ==
    {"GitHub API responded with status 403: rate limit exceeded",
     "Request failed: ECONNRESET",
     "Failed to parse JSON response: Unexpected end of JSON input",
     "Request timeout"}

\* main has read its arguments and the URL and calls fetchAllReleases
Init ==
    /\ pc = "fetch_loop"
    /\ minVersion \in RunMinVersions
    /\ maxVersion \in RunMaxVersions
    /\ page = 1
    /\ heap = << <<>> >>
    /\ requests = <<>>
    /\ inFlight = 0
    /\ error = null
    /\ file = <<>>
    /\ exitCode = null
    /\ responses = <<>>
    /\ releases = 0
    /\ filteredReleases = 0
    /\ snapshot = <<>>
    /\ arg = <<>>
    /\ ret = <<>>

\* the top of the while loop: makeRequest(url) for the current page
SendRequest ==
    /\ pc = "fetch_loop"
    /\ requests' = Append(requests, page)
    /\ inFlight' = inFlight + 1
    /\ pc' = "await_response"
    /\ UNCHANGED <<minVersion, maxVersion, page, heap, error, file, exitCode,
                   responses, releases, filteredReleases, snapshot, arg, ret>>

\* mutant: a page of exactly perPage releases ends the loop too
endOfReleases_Inclusive(pageReleases) == Len(pageReleases) <= perPage

\* pageReleases.length < perPage
endOfReleases(pageReleases) == Len(pageReleases) < perPage

\* the request resolves with an array: the rest of the loop body, up to the
\* delay or to the return to main
ReceivePage ==
    /\ pc = "await_response"
    /\ \E pageReleases \in ShortPages \cup {FullPage(page)} :
          /\ Len(pageReleases) = perPage => page < MaxPages
          /\ responses' = Append(responses, pageReleases)
          /\ IF Len(pageReleases) = 0
             THEN /\ pc' = "fetched"
                  /\ releases' = 1
                  /\ UNCHANGED <<heap, page>>
             ELSE /\ heap' = [heap EXCEPT ![1] = @ \o pageReleases]
                  /\ IF endOfReleases(pageReleases)
                     THEN pc' = "fetched" /\ releases' = 1 /\ UNCHANGED page
                     ELSE pc' = "delay" /\ page' = page + 1 /\ UNCHANGED releases
    /\ inFlight' = inFlight - 1
    /\ UNCHANGED <<minVersion, maxVersion, requests, error, file, exitCode,
                   filteredReleases, snapshot, arg, ret>>

\* the request resolves with JSON that is no array: the loop ends
ReceiveNotArray ==
    /\ pc = "await_response"
    /\ responses' = Append(responses, <<>>)
    /\ pc' = "fetched"
    /\ releases' = 1
    /\ inFlight' = inFlight - 1
    /\ UNCHANGED <<minVersion, maxVersion, page, heap, requests, error, file,
                   exitCode, filteredReleases, snapshot, arg, ret>>

\* mutant: the message names the page after the failing one
fetchError_NextPage(p, message) ==
    "Failed to fetch releases on page " \o ToString(p + 1) \o ": " \o message

\* the Error fetchAllReleases throws from its catch
fetchError(p, message) ==
    "Failed to fetch releases on page " \o ToString(p) \o ": " \o message

\* the request rejects: fetchAllReleases rethrows, main's catch reports the
\* error and exits with 1
RequestFails ==
    /\ pc = "await_response"
    /\ \E message \in RequestErrors : error' = fetchError(page, message)
    /\ inFlight' = inFlight - 1
    /\ exitCode' = "1"
    /\ pc' = "done"
    /\ UNCHANGED <<minVersion, maxVersion, page, heap, requests, file,
                   responses, releases, filteredReleases, snapshot, arg, ret>>

\* await new Promise((resolve) => setTimeout(resolve, 100))
DelayElapsed ==
    /\ pc = "delay"
    /\ pc' = "fetch_loop"
    /\ UNCHANGED <<minVersion, maxVersion, page, heap, requests, inFlight, error,
                   file, exitCode, responses, releases, filteredReleases,
                   snapshot, arg, ret>>

\* main: releases.length === 0, "No releases found", return
NoReleases ==
    /\ pc = "fetched"
    /\ Len(heap[releases]) = 0
    /\ exitCode' = "0"
    /\ pc' = "done"
    /\ UNCHANGED <<minVersion, maxVersion, page, heap, requests, inFlight, error,
                   file, responses, releases, filteredReleases, snapshot, arg, ret>>

\* the arrays after filterReleasesByVersion and filteredReleases.sort: the
\* array filterReleasesByVersion returned is sorted in place, and it is the
\* releases array itself when no bound is given
heapAfterSort(h, minV, maxV) ==
    IF returnsSameArray(minV, maxV)
    THEN [h EXCEPT ![1] = sortByPublishedDesc(h[1])]
    ELSE Append(h, sortByPublishedDesc(filterReleasesByVersion(h[1], minV, maxV)))

\* saveReleasesAsMarkdown up to fs.writeFileSync
Compose ==
    /\ pc = "fetched"
    /\ Len(heap[releases]) > 0
    /\ snapshot' = heap[releases]
    /\ heap' = heapAfterSort(heap, minVersion, maxVersion)
    /\ filteredReleases' = IF returnsSameArray(minVersion, maxVersion)
                           THEN releases ELSE Len(heap) + 1
    /\ UNCHANGED <<minVersion, maxVersion, page, requests, inFlight,
                   responses, releases, arg, ret>>

\* main calls saveReleasesAsMarkdown, which writes the file; main returns
SaveReleasesAsMarkdown ==
    /\ Compose
    /\ file' = <<changelogContent(heap'[filteredReleases'], Len(heap[releases]),
                                  minVersion, maxVersion)>>
    /\ exitCode' = "0"
    /\ pc' = "done"
    /\ UNCHANGED error

\* main calls saveReleasesAsMarkdown and fs.writeFileSync throws: main's
\* catch reports the error and exits with 1
WriteFails ==
    /\ Compose
    /\ error' = "EACCES: permission denied, open 'repo-changelog.md'"
    /\ exitCode' = "1"
    /\ pc' = "done"
    /\ UNCHANGED file

Next ==
    \/ SendRequest
    \/ ReceivePage
    \/ ReceiveNotArray
    \/ RequestFails
    \/ DelayElapsed
    \/ NoReleases
    \/ SaveReleasesAsMarkdown
    \/ WriteFails

Spec == Init /\ [][Next]_vars

-----------------------------------------------------------------------------
(* The functions called on their own: the run's variables stay idle. *)

IdleRun ==
    /\ pc = "idle"
    /\ minVersion = null
    /\ maxVersion = null
    /\ page = 1
    /\ heap = <<>>
    /\ requests = <<>>
    /\ inFlight = 0
    /\ error = null
    /\ file = <<>>
    /\ exitCode = null
    /\ responses = <<>>
    /\ releases = 0
    /\ filteredReleases = 0
    /\ snapshot = <<>>

\* bound: longest version label given to parseVersion
MaxLabelLen == 4

ParseAlphabet == {"v", ".", "0", "1", "7", "a", "-"}

RECURSIVE StringsUpTo(_)
StringsUpTo(n) ==
    IF n = 0 THEN {""}
    ELSE LET S == StringsUpTo(n - 1)
         IN  S \cup {s \o c : s \in S, c \in ParseAlphabet}

InitParse ==
    /\ IdleRun
    /\ arg \in {<<version>> : version \in StringsUpTo(MaxLabelLen)}
    /\ ret = <<>>

CallParseVersion ==
    /\ ret = <<>>
    /\ ret' = <<parseVersion(arg[1])>>
    /\ UNCHANGED <<runVars, arg>>

SpecParse == InitParse /\ [][CallParseVersion]_vars

\* bound: most components of a version label or pattern given to versionMatches
MaxParts == 3

MatchSegments == {"0", "2", "10"}

MatchLabels ==
    {join(segs, ".") : segs \in UNION {[1..n -> MatchSegments] : n \in 1..MaxParts}}

InitMatch ==
    /\ IdleRun
    /\ arg \in (MatchLabels \cup {"v" \o l : l \in MatchLabels})
                \X MatchLabels \X {"min", "max"}
    /\ ret = <<>>

CallVersionMatches ==
    /\ ret = <<>>
    /\ ret' = <<versionMatches(arg[1], arg[2], arg[3])>>
    /\ UNCHANGED <<runVars, arg>>

SpecMatch == InitMatch /\ [][CallVersionMatches]_vars

\* bound: most releases given to filterReleasesByVersion
MaxReleases == 4

FilterTags == {"7.5.0", "8.2.0", "8.9.9", "9.0.1"}

FilterReleases == {Release(tag, null, null, 0) : tag \in FilterTags}

FilterBounds == {null, "8.2", "9"}

InitFilter ==
    /\ IdleRun
    /\ arg \in (UNION {[1..n -> FilterReleases] : n \in 0..MaxReleases})
                \X FilterBounds \X FilterBounds
    /\ ret = <<>>

CallFilterReleasesByVersion ==
    /\ ret = <<>>
    /\ ret' = <<filterReleasesByVersion(arg[1], arg[2], arg[3])>>
    /\ UNCHANGED <<runVars, arg>>

SpecFilter == InitFilter /\ [][CallFilterReleasesByVersion]_vars

\* bound: most lines of a body given to cleanReleaseBody
MaxLines == 3

BodyLines ==
    {"## New Contributors",
     "  ### New Contributors  ",
     "**New Contributors**",
     "**Full Changelog**: u",
     " Full Changelog: u",
     "### Changes",
     "## Thanks to New Contributors",
     "* @a first PR",
     "  - fix",
     ""}

Bodies ==
    {null} \cup
    {join(lines, "\n") : lines \in UNION {[1..n -> BodyLines] : n \in 1..MaxLines}}

InitClean ==
    /\ IdleRun
    /\ arg \in {<<body>> : body \in Bodies}
    /\ ret = <<>>

CallCleanReleaseBody ==
    /\ ret = <<>>
    /\ ret' = <<cleanReleaseBody(arg[1])>>
    /\ UNCHANGED <<runVars, arg>>

SpecClean == InitClean /\ [][CallCleanReleaseBody]_vars

-----------------------------------------------------------------------------
(* C10 *)

\* the segments parseVersion reads: the label without one leading "v", cut at "."
SegmentsOf(version) == split(stripLeadingV(version), ".")

\* the number spelled by all the digit characters of seg, in order; 0 when none
RECURSIVE AllDigitsValue(_, _)
AllDigitsValue(seg, acc) ==
    IF Len(seg) = 0 THEN acc
    ELSE AllDigitsValue(Tail(seg),
                        IF charAt(seg, 1) \in Digits
                        THEN 10 * acc + digitValue(charAt(seg, 1))
                        ELSE acc)

\* the number spelled by the leading digits of seg; 0 when it starts with none
LeadingDigitsValue(seg) == leadingDigits(seg, 0)

NumberOfDots(s) == Cardinality({i \in 1..Len(s) : charAt(s, i) = "."})

\* C10 as stated: each component of parseVersion's result is the value of the
\* leading digits of its segment, 0 when the segment has no leading digits.
C10_LeadingDigits ==
    ret # <<>> =>
        LET segs == SegmentsOf(arg[1])
        IN  ret[1] = [i \in 1..Len(segs) |-> LeadingDigitsValue(segs[i])]

\* C10 (amended): parseVersion strips one leading "v", splits on "." and turns
\* each segment into the number spelled by ALL of its digit characters (every
\* non-digit is removed, wherever it stands), 0 when the segment has no digit;
\* the result has one component per segment and every component is a
\* non-negative integer.
C10_AllDigits ==
    ret # <<>> =>
        LET segs == SegmentsOf(arg[1])
        IN  /\ Len(ret[1]) = NumberOfDots(stripLeadingV(arg[1])) + 1
            /\ Len(ret[1]) = Len(segs)
            /\ \A i \in 1..Len(segs) :
                  /\ ret[1][i] \in Nat
                  /\ ret[1][i] = AllDigitsValue(segs[i], 0)

\* a label whose segment holds a non-digit between its digits was parsed
C10_Witness == arg = <<"v1a7">> /\ ret = <<<<17>>>>

-----------------------------------------------------------------------------
(* C1 *)

\* the first n components of a version vector, a missing one read as 0
PaddedTo(versionParts, n) ==
    [i \in 1..n |-> IF i <= Len(versionParts) THEN versionParts[i] ELSE 0]

\* a < b in the lexicographic order of vectors of the same length
LexLess(a, b) ==
    \E i \in 1..Len(b) : a[i] < b[i] /\ \A j \in 1..(i - 1) : a[j] = b[j]

\* C1: versionMatches(V, P, "min") is true iff V >= P lexicographically over
\* P's component count (components V lacks read as 0), and
\* versionMatches(V, P, "max") is true iff V <= P under the same rule; only
\* the first Len(P) components of V are read.
C1_MinMaxLexicographic ==
    ret # <<>> =>
        LET P == parseVersion(arg[2])
            V == PaddedTo(parseVersion(arg[1]), Len(P))
        IN  ret[1] = IF arg[3] = "min" THEN ~LexLess(V, P) ELSE ~LexLess(P, V)

\* a version with fewer components than the pattern was compared, and
\* failed the minimum because its missing components count as 0
C1_Witness == arg = <<"v2", "2.0.10", "min">> /\ ret = <<FALSE>>

-----------------------------------------------------------------------------
(* C2 *)

ExampleReleases ==
    <<Release("7.5.0", null, null, 0), Release("8.2.0", null, null, 0),
      Release("8.9.9", null, null, 0), Release("9.0.1", null, null, 0)>>

TagsOf(array) == [i \in 1..Len(array) |-> array[i].tag_name]

ExampleCall == arg = <<ExampleReleases, "8.2", "9">> /\ ret # <<>>

\* C2 as stated: min "8.2" and max "9" over the tags 7.5.0, 8.2.0, 8.9.9,
\* 9.0.1 keep exactly 8.2.0 and 8.9.9, in that order.
C2_ExcludesNine == ExampleCall => TagsOf(ret[1]) = <<"8.2.0", "8.9.9">>

\* C2 (amended): min "8.2" and max "9" over the tags 7.5.0, 8.2.0, 8.9.9,
\* 9.0.1 keep exactly 8.2.0, 8.9.9 and 9.0.1, in that order: the shorthand
\* maximum "9" includes every 9.x.y.
C2_IncludesNine == ExampleCall => TagsOf(ret[1]) = <<"8.2.0", "8.9.9", "9.0.1">>

\* the example call was made
C2_Witness == ExampleCall

-----------------------------------------------------------------------------
(* C5, C6 *)

LinesOf(body) == split(body, "\n")

\* the line is a New Contributors heading (rule 1)
Rule1(line) ==
    \E h \in {"## New Contributors", "### New Contributors", "**New Contributors**"} :
        startsWith(trim(line), h)

\* the line is a Full Changelog link and no New Contributors heading (rule 2)
Rule2(line) ==
    /\ ~Rule1(line)
    /\ \E h \in {"**Full Changelog**:", "Full Changelog:"} : startsWith(trim(line), h)

\* the line is a heading that does not name New Contributors (rule 3)
Rule3(line) ==
    /\ ~Rule1(line)
    /\ ~Rule2(line)
    /\ startsWith(trim(line), "##")
    /\ ~includes(trim(line), "New Contributors")

\* the automaton is in state skipping after line i: a New Contributors
\* heading was read and no other heading since
Skipping(lines, i) ==
    \E j \in 1..i : Rule1(lines[j]) /\ \A k \in (j + 1)..i : ~Rule3(lines[k])

Emitted(lines) ==
    {i \in 1..Len(lines) :
        ~Rule1(lines[i]) /\ ~Rule2(lines[i]) /\ ~Skipping(lines, i)}

\* the lines at the indices E, in their order
Pick(lines, E) ==
    [k \in 1..Cardinality(E) |->
        lines[CHOOSE i \in E : Cardinality({j \in E : j < i}) = k - 1]]

\* C5: cleanReleaseBody is the two-state automaton of rules (1)-(4): the lines
\* it emits are exactly the input lines that are neither a New Contributors
\* heading nor a Full Changelog link and are read in state normal, in their
\* original order, and the text returned is these lines joined and trimmed.
C5_TwoStateAutomaton ==
    (ret # <<>> /\ truthy(arg[1])) =>
        LET lines == LinesOf(arg[1])
        IN  /\ cleanedLinesOf(arg[1]) = Pick(lines, Emitted(lines))
            /\ ret[1] = trim(join(Pick(lines, Emitted(lines)), "\n"))

\* a New Contributors section followed by another heading was cleaned: the
\* section is dropped, the heading kept
C5_Witness ==
    /\ arg = <<"## New Contributors\n* @a first PR\n### Changes">>
    /\ ret = <<"### Changes">>

\* C6: cleaning is idempotent, the absent and the empty body included.
C6_Idempotent == ret # <<>> => cleanReleaseBody(ret[1]) = ret[1]

\* a body that cleaning changes was cleaned
C6_Witness ==
    /\ arg = <<"  - fix\n**Full Changelog**: u\n  ### New Contributors  ">>
    /\ ret = <<"- fix">>

-----------------------------------------------------------------------------
(* C3, C4 *)

RECURSIVE Concat(_)
Concat(arrays) ==
    IF Len(arrays) = 0 THEN <<>> ELSE Head(arrays) \o Concat(Tail(arrays))

\* fetchAllReleases has returned to main
FetchReturned == releases # 0

\* C3: requests go out one at a time for pages 1, 2, ... in that order; when
\* fetchAllReleases returns after k successful responses, page k is the first
\* one holding fewer than perPage items, exactly k requests were made, and the
\* array returned is the concatenation of pages 1..k in arrival order.
C3_SequentialPagination ==
    /\ inFlight \in {0, 1}
    /\ requests = [i \in 1..Len(requests) |-> i]
    /\ FetchReturned =>
          LET k == Len(responses)
          IN  /\ Len(requests) = k
              /\ Len(responses[k]) < perPage
              /\ \A i \in 1..(k - 1) : Len(responses[i]) = perPage
              /\ pc = "fetched" => heap[releases] = Concat(responses)
              /\ filteredReleases # 0 => snapshot = Concat(responses)

\* two full pages and a short third page were fetched with three requests
C3_Witness ==
    /\ pc = "fetched"
    /\ requests = <<1, 2, 3>>
    /\ Len(responses[1]) = perPage
    /\ Len(responses[2]) = perPage
    /\ Len(responses[3]) = 2
    /\ Len(heap[releases]) = 2 * perPage + 2

\* the last request made was rejected
FetchFailed == inFlight = 0 /\ Len(responses) < Len(requests)

\* C4: when the request for page p fails after p - 1 successful pages, the run
\* has ended with an error naming page p, nothing was returned to main, no
\* further request is made, no file is written and the exit status is 1.
C4_FetchFailureAborts ==
    FetchFailed =>
        LET p == Len(responses) + 1
        IN  /\ requests[Len(requests)] = p
            /\ pc = "done"
            /\ startsWith(error, "Failed to fetch releases on page "
                                 \o ToString(p) \o ": ")
            /\ releases = 0
            /\ filteredReleases = 0
            /\ file = <<>>
            /\ exitCode = "1"
            /\ ~ENABLED SendRequest
            /\ ~ENABLED Next

\* the request for page 2 failed after a full first page
C4_Witness ==
    /\ FetchFailed
    /\ Len(responses) = 1
    /\ error = "Failed to fetch releases on page 2: Request timeout"

-----------------------------------------------------------------------------
(* C7, C8, C9 *)

\* saveReleasesAsMarkdown was called and wrote the file
Written == pc = "done" /\ file # <<>>

\* the releases saveReleasesAsMarkdown was given that are within the bounds
Selected == filterReleasesByVersion(snapshot, minVersion, maxVersion)

DistinctInstants(array) ==
    Cardinality({array[i].published_at : i \in 1..Len(array)}) = Len(array)

\* the release of the array that exactly k others are newer than
NewestBut(array, k) ==
    array[CHOOSE i \in 1..Len(array) :
             Cardinality({j \in 1..Len(array) :
                 array[j].published_at > array[i].published_at}) = k]

HeadingOf(release) ==
    "## " \o (IF release.name \in {null, ""} THEN release.tag_name
              ELSE release.name) \o "\n\n"

\* C7: when the releases within the bounds have distinct publication
\* instants, the document holds one section per release, newest first, and
\* every section but the last is followed by one "---" separator.
C7_NewestFirstWithSeparators ==
    (Written /\ DistinctInstants(Selected)) =>
        LET sections == file[1].sections
            n == Len(Selected)
        IN  /\ Len(sections) = n
            /\ \A i \in 1..n :
                  /\ sections[i].heading = HeadingOf(NewestBut(Selected, i - 1))
                  /\ sections[i].separator = IF i < n THEN "---\n\n" ELSE ""

\* three releases fetched oldest first were rendered newest first
C7_Witness ==
    /\ Written
    /\ [i \in 1..Len(snapshot) |-> snapshot[i].published_at] = <<1, 2, 3>>
    /\ minVersion = null
    /\ maxVersion = null
    /\ [i \in 1..3 |-> file[1].sections[i].heading]
         = <<"## 8.9.9\n\n", "## Version 8.2.0\n\n", "## 7.5.0\n\n">>

\* releases were fetched, none is within the bounds, and the run ended
\* without an error
NoneSelected ==
    /\ pc = "done"
    /\ error = null
    /\ filteredReleases # 0
    /\ Len(heap[filteredReleases]) = 0

\* C8 as stated: with zero releases after filtering the document consists of
\* the title and the count line only, and the exit status is 0.
C8_TitleAndCountOnly ==
    NoneSelected =>
        /\ file # <<>>
        /\ file[1].sections = <<>>
        /\ file[1].header.title = "# repo Changelog\n\n"
        /\ file[1].header.range = ""
        /\ startsWith(file[1].header.count, "Showing 0 of ")
        /\ exitCode = "0"

\* C8 (amended): when releases were fetched and none is within the bounds,
\* the run, unless writing the file fails, writes a document that consists of
\* the title, the version range line and the count line "Showing 0 of N
\* releases" only, and exits with 0; when no release was fetched at all, the
\* run writes no file and exits with 0.
C8_HeaderOnly ==
    /\ NoneSelected =>
          /\ file # <<>>
          /\ file[1].sections = <<>>
          /\ file[1].header.title = "# repo Changelog\n\n"
          /\ startsWith(file[1].header.range, "Version range: ")
          /\ file[1].header.count
               = "Showing 0 of " \o ToString(Len(snapshot)) \o " releases\n\n"
          /\ exitCode = "0"
    /\ (pc = "done" /\ FetchReturned /\ filteredReleases = 0) =>
          /\ Len(heap[releases]) = 0
          /\ file = <<>>
          /\ exitCode = "0"

\* a run whose minimum bound no fetched release reaches wrote its document
C8_Witness == NoneSelected /\ file # <<>> /\ Len(snapshot) = 2

\* C9: saveReleasesAsMarkdown leaves the array it was given as it was: the
\* same members in the same order after the call as before it.
C9_InputNotMutated ==
    (pc = "done" /\ filteredReleases # 0) => heap[releases] = snapshot

====
